---------------------------- MODULE Spec2Model ----------------------------
(***************************************************************************)
(* A model of AdvancedNoisePatterns.generate_advanced_noise                *)
(* (src/AdvancedNoisePatterns.py) and of the five generators it calls.     *)
(*                                                                         *)
(* Numbers.  A real number x is held as the integer x*SC (fixed point,     *)
(* floor rounding).  A float32 tensor element is such an integer or one    *)
(* of NaN, PInf, NInf.  The Python float64 scalars that generate_fbm       *)
(* grows geometrically (amplitude, frequency) are held as m * 2^e so that  *)
(* the float32 range (2^128) is kept at its true width.  The library       *)
(* functions sin, cos, tanh, sigmoid, exp and ** 0.3 are computed by       *)
(* bounded rational approximations that keep their range, sign, parity     *)
(* and NaN propagation.                                                    *)
(***************************************************************************)
EXTENDS Integers, Sequences, FiniteSets, TLC

\* ------------------------------------------------------------ numbers

SC == 2^4                      \* fixed-point scale: x is held as x*SC
PI == (355 * SC) \div 113      \* np.pi
TWO_PI == 2 * PI
NaN == -(2^30)                 \* float NaN
PInf == 2^30                   \* float +inf
NInf == -(2^30) + 1            \* float -inf
Cplx == -(2^30) + 2            \* a complex number (Python's negative ** 0.3)
Special == {NaN, PInf, NInf, Cplx}
HUGE == 2^20                   \* a finite float32 too large for the fixed-point
                               \* range is held as +-HUGE (only its sign is read)

IsNaN(x) == x = NaN
IsFinite(x) == x \notin Special
Abs(x) == IF x < 0 THEN -x ELSE x
Sgn(x) == IF x < 0 THEN -1 ELSE IF x > 0 THEN 1 ELSE 0
Clamp(x) == IF x > HUGE THEN HUGE ELSE IF x < -HUGE THEN -HUGE ELSE x

\* float negation, addition, multiplication, division
Neg(a) ==
  IF a = Cplx THEN Cplx ELSE IF a = NaN THEN NaN ELSE IF a = PInf THEN NInf ELSE IF a = NInf THEN PInf ELSE -a

Add(a, b) ==
  IF a = Cplx \/ b = Cplx THEN Cplx
  ELSE IF a = NaN \/ b = NaN THEN NaN
  ELSE IF a = PInf THEN (IF b = NInf THEN NaN ELSE PInf)
  ELSE IF a = NInf THEN (IF b = PInf THEN NaN ELSE NInf)
  ELSE IF b \in Special THEN b
  ELSE Clamp(a + b)

Sub(a, b) == Add(a, Neg(b))

Mul(a, b) ==
  IF a = Cplx \/ b = Cplx THEN Cplx
  ELSE IF a = NaN \/ b = NaN THEN NaN
  ELSE IF a \in Special \/ b \in Special
       THEN (IF a = 0 \/ b = 0 THEN NaN
             ELSE IF (a = PInf \/ (IsFinite(a) /\ a > 0)) = (b = PInf \/ (IsFinite(b) /\ b > 0))
                  THEN PInf ELSE NInf)
  ELSE IF Abs(a) >= HUGE \/ Abs(b) >= HUGE
       THEN Sgn(a) * Sgn(b) * HUGE
  ELSE IF Abs(a) > 2^15 \/ Abs(b) > 2^15
       THEN Clamp(((a \div SC) * b))
  ELSE Clamp((a * b) \div SC)

Div(a, b) ==
  IF a = Cplx \/ b = Cplx THEN Cplx
  ELSE IF a = NaN \/ b = NaN THEN NaN
  ELSE IF a \in Special THEN (IF b \in Special THEN NaN
                              ELSE IF b >= 0 THEN a ELSE Neg(a))
  ELSE IF b \in Special THEN 0
  ELSE IF b = 0 THEN (IF a = 0 THEN NaN ELSE IF a > 0 THEN PInf ELSE NInf)
  ELSE Clamp((a * SC) \div b)

\* sin on [0, pi] by Bhaskara's rational approximation, extended by
\* sin(x + pi) = -sin(x) and period 2 pi; sin(+-inf) = sin(nan) = nan
SinUnit(x) == (16 * SC * x * (PI - x)) \div (5 * PI * PI - 4 * x * (PI - x))

SinRed(r) == IF r <= PI THEN SinUnit(r) ELSE -SinUnit(r - PI)

Sin(x) == IF x = Cplx THEN Cplx ELSE IF x \in Special THEN NaN ELSE SinRed(x % TWO_PI)

Cos(x) == IF x = Cplx THEN Cplx ELSE IF x \in Special THEN NaN ELSE SinRed((x + PI \div 2) % TWO_PI)

\* tanh by the Pade form x (27 + x^2) / (27 + 9 x^2) on |x| < 3, +-1 beyond
Tanh(x) ==
  IF x = Cplx THEN Cplx
  ELSE IF x = NaN THEN NaN
  ELSE IF x = PInf \/ (x # NInf /\ x >= 3 * SC) THEN SC
  ELSE IF x = NInf \/ x <= -3 * SC THEN -SC
  ELSE (x * (27 * SC * SC + x * x)) \div (27 * SC * SC + 9 * x * x)

\* sigmoid(x) = (1 + tanh(x / 2)) / 2
Sigmoid(x) ==
  IF x = Cplx THEN Cplx
  ELSE IF x = NaN THEN NaN
  ELSE (SC + Tanh(IF x \in Special THEN x ELSE x \div 2)) \div 2

\* exp by its Taylor series, for a finite x >= 0
RECURSIVE ExpTerms(_, _, _)
ExpTerms(x, term, n) ==
  IF term = 0 THEN 0 ELSE term + ExpTerms(x, (term * x) \div (n * SC), n + 1)

Exp(x) == IF x \in Special THEN (IF x = NInf THEN 0 ELSE x) ELSE ExpTerms(x, SC, 1)

\* x ** 0.3 for a finite x >= 0: the largest y with y^10 <= x^3, i.e. with
\* (y*SC)^10 <= (x*SC)^3 * SC^7 where SC^7 = (2^14)^2; y^5 is split in two
\* 14-bit limbs so that the comparison is exact in 32-bit arithmetic
Pow10LeCube(y, r) ==
  LET L == 2^14
      h == (y^5) \div L
      l == (y^5) % L
      mid == 2 * h * l + (l * l) \div L
      q == h * h + mid \div L
      exact == (l * l) % L = 0 /\ mid % L = 0
  IN  q < r^3 \/ (q = r^3 /\ exact)

Pow03(r) == CHOOSE y \in 0..(2 * SC) :
              /\ Pow10LeCube(y, r)
              /\ (y = 2 * SC \/ ~Pow10LeCube(y + 1, r))

\* ------------------------------------------------ float64 scalars m * 2^e
\* generate_fbm multiplies amplitude and frequency by a factor > 1 in every
\* octave; they are Python floats (float64) and leave the float32 range.
\* Big(m, e) stands for the real m * 2^e / SC, with m < 2^14.

RECURSIVE BigNorm(_, _)
BigNorm(m, e) == IF m < 2^14 THEN [m |-> m, e |-> e] ELSE BigNorm(m \div 2, e + 1)

ToBig(x) == BigNorm(x, 0)                    \* a fixed-point x >= 0

BigMul(b, x) == BigNorm((b.m * x) \div SC, b.e)   \* b times a fixed-point x, 0 <= x < 2^17

\* whether b is beyond the largest float32 (about 2^128): conversion gives inf
OverF32(b) ==
  /\ b.m > 0
  /\ \/ b.e >= 132
     \/ b.e >= 118 /\ b.m >= 2^(132 - b.e)

\* 2^e modulo n, by squaring
RECURSIVE Pow2Mod(_, _)
Pow2Mod(e, n) ==
  IF e = 0 THEN 1 % n
  ELSE LET h == Pow2Mod(e \div 2, n)
       IN  (h * h * (IF e % 2 = 1 THEN 2 ELSE 1)) % n

\* a scalar x >= 0 (nan, inf, complex allowed) as m * 2^e; nan has e = -1
\* and a complex number e = -2
BigNaN == [m |-> 0, e |-> 0 - 1]
BigCplx == [m |-> 0, e |-> 0 - 2]
BigInf == [m |-> 1, e |-> 2^10]

ToBigS(x) ==
  IF x = Cplx THEN BigCplx
  ELSE IF x = NaN THEN BigNaN ELSE IF x = PInf THEN BigInf ELSE ToBig(x)

\* the float32 tensor element c * b * k (c an element, b the float64 scalar,
\* k a constant, left to right as Python evaluates it) as the argument of sin
\* or cos: reduced modulo 2 pi when finite, PInf/NInf/NaN when the product
\* leaves the float32 range
AngleOf(c, b, k) ==
  IF c = Cplx \/ b.e = 0 - 2 THEN Cplx
  ELSE IF c = NaN \/ b.e < 0 THEN NaN
  ELSE IF OverF32(b) THEN (IF c = 0 THEN NaN ELSE IF c > 0 THEN PInf ELSE NInf)
  ELSE LET p == BigMul(BigMul(b, Abs(c)), k)
       IN  IF OverF32(p) THEN (IF c > 0 THEN PInf ELSE NInf)
           ELSE LET a == ((p.m % TWO_PI) * Pow2Mod(p.e, TWO_PI)) % TWO_PI
                IN  IF c < 0 THEN (TWO_PI - a) % TWO_PI ELSE a

\* the float32 tensor element b * s (b the float64 scalar amplitude, s an
\* element): +-inf beyond the float32 range, +-HUGE beyond the fixed-point one
ScaleOf(b, s) ==
  IF s = Cplx \/ b.e = 0 - 2 THEN Cplx
  ELSE IF s = NaN \/ b.e < 0 THEN NaN
  ELSE IF OverF32(b) THEN (IF s = 0 THEN NaN ELSE IF s > 0 THEN PInf ELSE NInf)
  ELSE LET p == BigMul(b, Abs(s))
           v == IF p.e >= 7 THEN HUGE ELSE Clamp(p.m * 2^p.e)
       IN  IF OverF32(p) THEN (IF s > 0 THEN PInf ELSE NInf)
           ELSE IF s < 0 THEN -v ELSE v

\* a decimal literal n/d of the source as a fixed-point number
Lit(n, d) == (n * SC) \div d

\* int(x) of a finite float x >= 0
IntOf(x) == x \div SC

\* ------------------------------------------------------------ tensors
\* A 2-D tensor is [shape |-> <<rows, cols>>, data |-> [Idx(shape) -> element]],
\* indexed from 1.

Idx(shape) == (1..shape[1]) \X (1..shape[2])

\* a tensor of a shape, data its elements by [row, column]
Tensor(shape, data) == [shape |-> shape, data |-> data]

Elems(t) == {t.data[p] : p \in Idx(t.shape)}

numel(t) == t.shape[1] * t.shape[2]

\* torch.zeros(shape)
zeros(shape) == Tensor(shape, [p \in Idx(shape) |-> 0])

\* torch.linspace(a, b, n)[k], k = 0..n-1
linspace(a, b, n, k) == IF n = 1 THEN a ELSE a + (k * (b - a)) \div (n - 1)

\* Tensor.min() and Tensor.max() of a non-empty tensor: nan if any element is
MinOf(t) ==
  IF NaN \in Elems(t) THEN NaN
  ELSE IF NInf \in Elems(t) THEN NInf
  ELSE LET fin == Elems(t) \ {PInf}
       IN  IF fin = {} THEN PInf ELSE CHOOSE m \in fin : \A x \in fin : m <= x

MaxOf(t) ==
  IF NaN \in Elems(t) THEN NaN
  ELSE IF PInf \in Elems(t) THEN PInf
  ELSE LET fin == Elems(t) \ {NInf}
       IN  IF fin = {} THEN NInf ELSE CHOOSE m \in fin : \A x \in fin : m >= x

\* ---------------------------------------------------------- generators

\* element [r, c] of generate_simplex(shape, freq), freq a scalar m * 2^e
simplex_at(shape, r, c, freq) ==
  LET c0 == linspace(-PI, PI, shape[1], r - 1)
      c1 == linspace(-PI, PI, shape[2], c - 1)
  IN  Mul(Tanh(Mul(Sin(AngleOf(c0, freq, SC)), Cos(AngleOf(c1, freq, Lit(15, 10))))),
          Sigmoid(Mul(Cos(AngleOf(c0, freq, Lit(7, 10))), Sin(AngleOf(c1, freq, 2 * SC)))))

\* generate_simplex(shape, freq): torch.meshgrid indexes [row, column]
generate_simplex(shape, freq) ==
  Tensor(shape, [p \in Idx(shape) |-> simplex_at(shape, p[1], p[2], freq)])

\* element [r, c] of noise after the loop of generate_fbm (lines 52-55) has
\* run from octave i on, with noise[r, c], amplitude and frequency as they
\* stand.  Every statement of the loop is element-wise, so the loop is run
\* once per element; a nan element stays nan whatever is added to it.
RECURSIVE fbm_loop(_, _, _, _, _, _, _, _, _, _, _)
fbm_loop(shape, r, c, i, octaves, persistence, lacunarity, chaos, noise, amplitude, frequency) ==
  IF i >= octaves \/ noise = NaN THEN noise
  ELSE fbm_loop(shape, r, c, i + 1, octaves, persistence, lacunarity, chaos,
                Add(noise, ScaleOf(amplitude, simplex_at(shape, r, c, BigMul(frequency, chaos)))),
                BigMul(amplitude, Mul(persistence, SC + Mul(chaos, Lit(2, 10)))),
                BigMul(frequency, Mul(lacunarity, SC + Mul(chaos, Lit(1, 10)))))

\* generate_fbm(shape, octaves, persistence, lacunarity, chaos): amplitude
\* and frequency are float64 scalars, noise is a float32 tensor
generate_fbm(shape, octaves, persistence, lacunarity, chaos) ==
  Tensor(shape, [p \in Idx(shape) |->
    Tanh(fbm_loop(shape, p[1], p[2], 0, octaves, persistence, lacunarity, chaos,
                      0, ToBig(SC), ToBig(SC)))])

\* generate_wave(shape, frequency, phases): x runs over shape[1] and y over
\* shape[0], and torch.meshgrid(x, y) indexes its result [x index, y index]
generate_wave(shape, frequency, phases) ==
  Tensor(<<shape[2], shape[1]>>, [p \in Idx(<<shape[2], shape[1]>>) |->
    LET xx == linspace(-PI, PI, shape[2], p[1] - 1)
        yy == linspace(-PI, PI, shape[1], p[2] - 1)
        wave1 == Mul(Sin(Add(Mul(xx, frequency), phases[1])),
                     Cos(Add(Mul(Mul(yy, frequency), Lit(13, 10)), phases[2])))
        wave2 == Mul(Cos(Add(Mul(Mul(xx, frequency), Lit(7, 10)), phases[2])),
                     Sin(Add(Mul(Mul(yy, frequency), Lit(17, 10)), phases[1])))
        wave3 == Mul(Sin(Mul(Mul(xx + yy, frequency), Lit(5, 10))),
                     Cos(Mul(Mul(xx - yy, frequency), Lit(8, 10))))
    IN  Div(Add(Add(wave1, wave2), wave3), 3 * SC)])

\* torch.sqrt of a finite element v >= 0
RECURSIVE SqrtSearch(_, _, _)
SqrtSearch(n, lo, hi) ==
  IF lo >= hi THEN lo
  ELSE LET mid == (lo + hi + 1) \div 2
       IN  IF mid * mid <= n THEN SqrtSearch(n, mid, hi) ELSE SqrtSearch(n, lo, mid - 1)

Sqrt(v) == SqrtSearch(v * SC, 0, 2^13)

\* torch.rand: the k-th number drawn after generator state rng, in [0, 1)
RandPeriod == SC
rand(rng, k) == ((rng + k) * 5 + ((rng + k) \div 4) * 3) % RandPeriod

\* generate_cellular(shape, numPoints, chaos_factor) with the generator in
\* state rng: point k is (rand 2k, rand 2k+1) * shape * chaos_factor.  The
\* modelled generator repeats after RandPeriod draws, so the minimum over
\* numPoints points is the minimum over the first RandPeriod of them.
generate_cellular(shape, numPoints, chaos_factor, rng) ==
  LET K == 0..((IF numPoints < RandPeriod THEN numPoints ELSE RandPeriod) - 1)
      px(k) == Mul(rand(rng, 2 * k) * shape[1], chaos_factor)
      py(k) == Mul(rand(rng, 2 * k + 1) * shape[2], chaos_factor)
      dist(x, y, qx, qy) == Sqrt(Mul(x - qx, x - qx) + Mul(y - qy, y - qy))
      least(S) == CHOOSE m \in S : \A d \in S : m <= d
  IN  Tensor(shape, [p \in Idx(shape) |->
    LET x == (p[1] - 1) * SC
        y == (p[2] - 1) * SC
        distances1 == least({dist(x, y, px(k), py(k)) : k \in K})
        distances2 == least({dist(x, y, Mul(px(k), Lit(15, 10)), Mul(py(k), Lit(8, 10))) : k \in K})
    IN  Mul(Sin(Mul(distances1, Lit(2, 10))), Cos(Mul(distances2, Lit(15, 100))))])

\* torch.nn.functional.grid_sample(input, grid, align_corners=False) at one
\* grid point (gx, gy): bilinear, padding_mode='zeros' (the default); gx
\* addresses the last dimension of input, gy the one before it
grid_sample_at(input, gx, gy) ==
  IF ~IsFinite(gx) \/ ~IsFinite(gy) THEN NaN
  ELSE LET H == input.shape[1]
           W == input.shape[2]
           ix == ((gx + SC) * W - SC) \div 2
           iy == ((gy + SC) * H - SC) \div 2
           x0 == ix \div SC
           y0 == iy \div SC
           fx == ix - x0 * SC
           fy == iy - y0 * SC
           at(yy, xx) == IF yy >= 0 /\ yy < H /\ xx >= 0 /\ xx < W
                         THEN input.data[<<yy + 1, xx + 1>>] ELSE 0
       IN  Add(Add(Mul(at(y0, x0), Mul(SC - fx, SC - fy)),
                   Mul(at(y0, x0 + 1), Mul(fx, SC - fy))),
               Add(Mul(at(y0 + 1, x0), Mul(SC - fx, fy)),
                   Mul(at(y0 + 1, x0 + 1), Mul(fx, fy))))

\* domain_warp(noise, warp_factor, timestamp): the grids come from
\* torch.meshgrid(linspace(width), linspace(height)) and are indexed
\* [x index, y index], so the grid, and with it the result, has shape
\* (width, height)
domain_warp(noise, warp_factor, timestamp) ==
  LET height == noise.shape[1]
      width == noise.shape[2]
      turn == Mul(Mul(6 * SC, PI), timestamp)
  IN  Tensor(<<width, height>>, [p \in Idx(<<width, height>>) |->
    LET grid_x == linspace(-SC, SC, width, p[1] - 1)
        grid_y == linspace(-SC, SC, height, p[2] - 1)
        wx == Add(grid_x, Mul(Mul(warp_factor, Sin(Add(turn, grid_y * 2))), Cos(grid_x * 3)))
        wy == Add(grid_y, Mul(Mul(warp_factor, Cos(Add(turn, grid_x * 2))), Sin(grid_y * 3)))
    IN  Tanh(Mul(grid_sample_at(noise, wx, wy), 2 * SC))])

\* ------------------------------------------------------------- bounds

MaxLen == 2        \* longest timestamp list a caller passes
MaxLatent == 2     \* largest latent height and width

\* timestamps a caller passes: 0.0, 0.5, 1.0 and a negative one
TsVals == {0, SC \div 2, SC, -SC}

RECURSIVE SeqsUpTo(_, _)
SeqsUpTo(S, n) ==
  IF n = 0 THEN {<<>>}
  ELSE LET shorter == SeqsUpTo(S, n - 1)
       IN  shorter \cup {Append(q, x) : q \in {t \in shorter : Len(t) = n - 1}, x \in S}

\* width and height: latent sizes 0..MaxLatent, multiples of 8 and not
Dims == {8 * k + 4 * ((k + 1) % 2) : k \in 0..MaxLatent}

NoiseTypes == {"simplex", "cellular", "fbm", "wave", "domain_warp"}
Unrecognized == "plasma"       \* a noise_type outside the five families

\* an optional value: <<>> when the key is absent, <<v>> when it is present
None == <<>>
Some(v) == <<v>>
Has(o) == Len(o) = 1
Get(o, default) == IF Has(o) THEN o[1] ELSE default

\* the two calls that are run side by side: they differ only in the
\* persistence the caller configured for noise_type
Runs == {1, 2}

\* ---------------------------------------------------------------- state

VARIABLES
  noise_params,   \* [Runs -> the caller's dict]: [timestamps, entry], both optional;
                  \* entry is the caller's noise_params[noise_type]
  width, height, noise_type,
  ts_kind,        \* "float": the timestamps are Python floats; "float64": numpy's
  seed,           \* state of torch's random generator at the call
  loc             \* [Runs -> the call's locals, program counter and result]

vars == <<noise_params, width, height, noise_type, ts_kind, seed, loc>>

\* default_noise_params, lines 92-99
default_timestamps == <<0, SC \div 2, SC>>
default_entry(type) ==
  IF type = "fbm" THEN [intensity |-> Some(SC), persistence |-> Some(SC \div 2)]
  ELSE [intensity |-> Some(SC), persistence |-> None]

NoTensor == [shape |-> <<0, 0>>, data |-> <<>>]

InitLoc ==
  [pc |-> "call", err |-> "", bound |-> {},
   merged |-> [timestamps |-> <<>>, entry |-> None],
   timestamps |-> <<>>, base_params |-> default_entry(""),
   batch_size |-> 0, latent_height |-> 0, latent_width |-> 0,
   noise_batch |-> <<>>, intensity |-> 0, persistence |-> 0,
   i |-> 0, timestamp |-> 0, time_scale |-> 0, energy_factor |-> 0, chaos |-> 0,
   base_noise |-> NoTensor, rng |-> seed, result |-> <<>>,
   log |-> <<>>,     \* history of line 156: <<i, c, timestamp>> of every store
   flat |-> {}]      \* history of line 151: the i whose field had max = min

\* the caller's noise_params[noise_type]: absent, or with one of the two keys
Entries ==
  {None,
   Some([intensity |-> None, persistence |-> Some(SC \div 4)]),
   Some([intensity |-> Some(0), persistence |-> None])}

\* the second call's entry: the first call's with another persistence
OtherPersistence(entry) ==
  IF Has(entry) THEN Some([entry[1] EXCEPT !.persistence = Some((3 * SC) \div 4)])
  ELSE Some([intensity |-> None, persistence |-> Some((3 * SC) \div 4)])

Init ==
  /\ noise_type \in NoiseTypes \cup {Unrecognized}
  /\ width \in Dims
  /\ height \in Dims
  /\ ts_kind \in {"float", "float64"}
  /\ seed \in {0, 1}
  /\ seed = 0 \/ noise_type = "cellular"
  /\ \E ts \in {None} \cup {Some(q) : q \in SeqsUpTo(TsVals, MaxLen)}, entry \in Entries :
       noise_params = [r \in Runs |->
         [timestamps |-> ts,
          entry |-> IF r = 1 THEN entry
                    ELSE IF noise_type \in NoiseTypes THEN OtherPersistence(entry)
                    ELSE entry]]
  /\ loc = [r \in Runs |-> InitLoc]

\* ----------------------------------------------------- the call, by step
\* Each step is an operator from the locals l of one call to its locals after
\* the step; the actions below apply it to every call that stands at it.

Raise(l, what) == [l EXCEPT !.pc = "raised", !.err = what]

\* lines 101-107: the caller's dict completed from default_noise_params
merge(r, l) ==
  [l EXCEPT
     !.merged = [timestamps |-> Get(noise_params[r].timestamps, default_timestamps),
                 entry |-> IF Has(noise_params[r].entry) THEN noise_params[r].entry
                           ELSE IF noise_type \in NoiseTypes
                                THEN Some(default_entry(noise_type))
                                ELSE None],
     !.pc = "merged"]

\* a variant of return_empty that reads noise_params[noise_type] (line 117)
\* before it tests for an empty list: what C2 rules out
return_empty_after_lookup(l) ==
  IF ~Has(l.merged.entry) THEN Raise(l, "KeyError")
  ELSE [l EXCEPT
          !.timestamps = l.merged.timestamps,
          !.base_params = l.merged.entry[1],
          !.result = Some([samples |-> <<[c \in 1..4 |-> zeros(<<height \div 8, width \div 8>>)]>>,
                           timestamps |-> <<0>>]),
          !.pc = "done"]

\* lines 109-111: no timestamps, one frame of zeros and [0.0]
return_empty(l) ==
  [l EXCEPT
     !.timestamps = l.merged.timestamps,
     !.result = Some([samples |-> <<[c \in 1..4 |-> zeros(<<height \div 8, width \div 8>>)]>>,
                      timestamps |-> <<0>>]),
     !.pc = "done"]

\* a variant of setup that reads the entry with a default, as
\* noise_params.get(noise_type, {}) would: what C4 (amended) tells apart
setup_with_default(l) ==
  LET timestamps == l.merged.timestamps
      entry == Get(l.merged.entry, [intensity |-> None, persistence |-> None])
  IN  [l EXCEPT
         !.timestamps = timestamps,
         !.batch_size = Len(timestamps),
         !.latent_height = height \div 8,
         !.latent_width = width \div 8,
         !.noise_batch = [k \in 1..Len(timestamps) |->
                            [c \in 1..4 |-> zeros(<<height \div 8, width \div 8>>)]],
         !.base_params = entry,
         !.intensity = Get(entry.intensity, SC),
         !.persistence = Get(entry.persistence, SC \div 2),
         !.i = 0,
         !.pc = "loop"]

\* lines 109, 113-119
setup(l) ==
  LET timestamps == l.merged.timestamps
      latent_height == height \div 8
      latent_width == width \div 8
      set == [l EXCEPT
                !.timestamps = timestamps,
                !.batch_size = Len(timestamps),
                !.latent_height = latent_height,
                !.latent_width = latent_width,
                !.noise_batch = [k \in 1..Len(timestamps) |->
                                   [c \in 1..4 |-> zeros(<<latent_height, latent_width>>)]]]
  IN  IF ~Has(l.merged.entry) THEN Raise(set, "KeyError")
      ELSE [set EXCEPT
              !.base_params = l.merged.entry[1],
              !.intensity = Get(l.merged.entry[1].intensity, SC),
              !.persistence = Get(l.merged.entry[1].persistence, SC \div 2),
              !.i = 0,
              !.pc = "loop"]

\* timestamp / timestamps[-1] ** 0.3 for numpy floats: nan for a negative base
PowF(x) ==
  IF x = NaN THEN NaN
  ELSE IF x \in {PInf, NInf} THEN PInf
  ELSE IF x < 0 THEN NaN
  ELSE Pow03(x)

\* a variant of schedule that walks the timestamps from the last to the
\* first: what C3 rules out
schedule_reversed(l) ==
  LET timestamp == l.timestamps[Len(l.timestamps) - l.i]
      last == l.timestamps[Len(l.timestamps)]
      ratio == Div(timestamp, last)
      time_scale == IF ts_kind = "float" /\ IsFinite(ratio) /\ ratio < 0 THEN Cplx
                    ELSE PowF(ratio)
      energy_factor == Mul(l.intensity, Sub(Add(SC, Exp(Mul(time_scale, 2 * SC))), SC))
      chaos == Lit(5, 10) + Abs(Sin(timestamp * 10)) * 2
      next == [l EXCEPT !.timestamp = timestamp, !.time_scale = time_scale,
                        !.energy_factor = energy_factor, !.chaos = chaos,
                        !.pc = "dispatch"]
  IN  IF ts_kind = "float" /\ last = 0 THEN Raise([l EXCEPT !.timestamp = timestamp], "ZeroDivisionError")
      ELSE next

\* lines 121-124.  With Python floats a zero last timestamp raises
\* ZeroDivisionError and a negative ratio makes time_scale a complex number;
\* with numpy floats they give inf or nan.
schedule(l) ==
  LET timestamp == l.timestamps[l.i + 1]
      last == l.timestamps[Len(l.timestamps)]
      ratio == Div(timestamp, last)
      time_scale == IF ts_kind = "float" /\ IsFinite(ratio) /\ ratio < 0 THEN Cplx
                    ELSE PowF(ratio)
      energy_factor == Mul(l.intensity, Sub(Add(SC, Exp(Mul(time_scale, 2 * SC))), SC))
      chaos == Lit(5, 10) + Abs(Sin(timestamp * 10)) * 2
      next == [l EXCEPT !.timestamp = timestamp, !.time_scale = time_scale,
                        !.energy_factor = energy_factor, !.chaos = chaos,
                        !.pc = "dispatch"]
  IN  IF ts_kind = "float" /\ last = 0 THEN Raise([l EXCEPT !.timestamp = timestamp], "ZeroDivisionError")
      ELSE next

\* line 136: the persistence of this iteration
fbm_persistence(l) == Lit(2, 10) + Mul(l.energy_factor, Lit(8, 10))

\* lines 134-138 with generate_fbm given `persistence` and the local
\* persistence left at `kept`.  int() of a complex number, of nan or of inf
\* raises.
dispatch_fbm(l, persistence, kept) ==
  LET shape == <<l.latent_height, l.latent_width>>
      e == l.energy_factor
  IN  IF e = Cplx THEN Raise(l, "TypeError")
      ELSE IF ~IsFinite(e) THEN Raise(l, "ValueError")
      ELSE LET octaves == IntOf(2 * SC + Mul(e, 6 * SC))
               lacunarity == Lit(12, 10) + Mul(e, 4 * SC)
           IN  [l EXCEPT
                  !.base_noise = generate_fbm(shape, octaves, persistence, lacunarity, l.chaos),
                  !.bound = @ \cup {"base_noise"},
                  !.persistence = kept,
                  !.pc = "normalize"]

\* lines 126-132 and 140-149: the families other than fbm.  A complex
\* energy_factor fails at the first operation that takes no complex number:
\* int() (cellular), grid_sample's grid (domain_warp); simplex and wave
\* return a complex tensor.  A noise_type that is none of the names binds
\* nothing.
dispatch_other(l) ==
  LET shape == <<l.latent_height, l.latent_width>>
      e == l.energy_factor
      got(t) == [l EXCEPT !.base_noise = t, !.bound = @ \cup {"base_noise"},
                          !.pc = "normalize"]
  IN  CASE noise_type = "simplex" ->
             LET freq == Add(SC, Mul(e, 30 * SC))
             IN  got(generate_simplex(shape, ToBigS(freq)))
        [] noise_type = "cellular" ->
             IF e = Cplx THEN Raise(l, "TypeError")
             ELSE IF ~IsFinite(e) THEN Raise(l, "ValueError")
             ELSE LET points == IntOf(3 * SC + Mul(e, 150 * SC))
                  IN  [got(generate_cellular(shape, points, l.chaos, l.rng))
                         EXCEPT !.rng = (l.rng + 2 * points) % RandPeriod]
        [] noise_type = "wave" ->
             LET freq == Add(Lit(3, 10), Mul(e, 12 * SC))
                 phase_x == Mul(Mul(l.timestamp * 8, PI), l.chaos)
                 phase_y == Mul(Mul(l.timestamp * 6, PI), 2 * SC - l.chaos)
             IN  got(generate_wave(shape, freq, <<phase_x, phase_y>>))
        [] noise_type = "domain_warp" ->
             LET base_noise == generate_simplex(shape, ToBig(2 * l.chaos))
                 warp_factor == Add(Lit(1, 10), Mul(e, Lit(12, 10)))
             IN  IF numel(base_noise) = 0 \/ warp_factor = Cplx THEN Raise(l, "RuntimeError")
                 ELSE got(domain_warp(base_noise, warp_factor, l.timestamp))
        [] OTHER -> [l EXCEPT !.pc = "normalize"]

\* a variant of dispatch where generate_fbm is given the persistence the
\* previous iteration left behind, line 136 running after line 138: what C9
\* rules out
dispatch_carried(l) ==
  IF noise_type = "fbm" THEN dispatch_fbm(l, l.persistence, fbm_persistence(l))
  ELSE dispatch_other(l)

\* a variant of dispatch without line 136, generate_fbm being given the
\* persistence read from noise_params: what C10 rules out
dispatch_configured(l) ==
  IF noise_type = "fbm" THEN dispatch_fbm(l, l.persistence, l.persistence)
  ELSE dispatch_other(l)

\* lines 126-149
dispatch(l) ==
  IF noise_type = "fbm" THEN dispatch_fbm(l, fbm_persistence(l), fbm_persistence(l))
  ELSE dispatch_other(l)

\* a variant of minmax that divides by max() instead of max() - min(): what
\* C6 rules out
minmax_by_max(t) ==
  LET lo == MinOf(t)
      hi == MaxOf(t)
  IN  Tensor(t.shape, [p \in Idx(t.shape) |->
    LET x == t.data[p]
    IN  Div(Sub(x, lo), hi)])

\* line 151 on a tensor
minmax(t) ==
  LET lo == MinOf(t)
      hi == MaxOf(t)
  IN  Tensor(t.shape, [p \in Idx(t.shape) |->
    LET x == t.data[p]
    IN  Div(Sub(x, lo), Sub(hi, lo))])

\* line 151: Tensor.min() raises on an empty tensor and on a complex one
normalize(l) ==
  IF "base_noise" \notin l.bound THEN Raise(l, "UnboundLocalError")
  ELSE IF numel(l.base_noise) = 0 \/ Cplx \in Elems(l.base_noise) THEN Raise(l, "RuntimeError")
  ELSE [l EXCEPT !.base_noise = minmax(l.base_noise),
                 !.flat = IF IsFinite(MinOf(l.base_noise))
                             /\ MinOf(l.base_noise) = MaxOf(l.base_noise)
                          THEN @ \cup {l.i} ELSE @,
                 !.pc = "expand"]

\* lines 154-156 for channel c: the tensor stored into noise_batch[i, c]
channel(base_noise, c, chaos, energy_factor) ==
  LET channel_phase == Mul((c * PI) \div 2, chaos)
  IN  Tensor(base_noise.shape, [p \in Idx(base_noise.shape) |->
    LET x == base_noise.data[p]
    IN  Tanh(Mul(Mul(Sin(Mul(x, 8 * SC + channel_phase)), energy_factor), 2 * SC))])

\* noise_batch[i, c] = t: t is broadcast to the slot's shape
Broadcastable(from, to) == \A k \in 1..2 : from[k] = to[k] \/ from[k] = 1

broadcast(t, to) ==
  Tensor(to, [p \in Idx(to) |->
    t.data[<<IF t.shape[1] = 1 THEN 1 ELSE p[1],
             IF t.shape[2] = 1 THEN 1 ELSE p[2]>>]])

\* lines 153-156
expand(l) ==
  LET slot == <<l.latent_height, l.latent_width>>
  IN  IF ~Broadcastable(l.base_noise.shape, slot) THEN Raise(l, "RuntimeError")
      ELSE [l EXCEPT
              !.noise_batch[l.i + 1] =
                 [c \in 1..4 |->
                    broadcast(channel(l.base_noise, c - 1, l.chaos, l.energy_factor), slot)],
              !.log = @ \o [c \in 1..4 |-> <<l.i, c - 1, l.timestamp>>],
              !.i = l.i + 1,
              !.pc = "loop"]

\* line 158
return(l) ==
  [l EXCEPT !.result = Some([samples |-> l.noise_batch, timestamps |-> l.timestamps]),
            !.pc = "done"]

\* --------------------------------------------------------------- actions

\* the calls that stand at a program point
Standing(where) == {r \in Runs : loc[r].pc = where}

InLoop == {r \in Standing("loop") : loc[r].i < loc[r].batch_size}
LoopDone == {r \in Standing("loop") : loc[r].i = loc[r].batch_size}
NoTimestamps == {r \in Standing("merged") : Len(loc[r].merged.timestamps) = 0}
SomeTimestamps == {r \in Standing("merged") : Len(loc[r].merged.timestamps) # 0}

Args == <<noise_params, width, height, noise_type, ts_kind, seed>>

Merge ==
  /\ Standing("call") # {}
  /\ loc' = [r \in Runs |-> IF r \in Standing("call") THEN merge(r, loc[r]) ELSE loc[r]]
  /\ UNCHANGED Args

ReturnEmpty ==
  /\ NoTimestamps # {}
  /\ loc' = [r \in Runs |-> IF r \in NoTimestamps THEN return_empty(loc[r]) ELSE loc[r]]
  /\ UNCHANGED Args

Setup ==
  /\ SomeTimestamps # {}
  /\ loc' = [r \in Runs |-> IF r \in SomeTimestamps THEN setup(loc[r]) ELSE loc[r]]
  /\ UNCHANGED Args

Schedule ==
  /\ InLoop # {}
  /\ loc' = [r \in Runs |-> IF r \in InLoop THEN schedule(loc[r]) ELSE loc[r]]
  /\ UNCHANGED Args

Dispatch ==
  /\ Standing("dispatch") # {}
  /\ loc' = [r \in Runs |-> IF r \in Standing("dispatch") THEN dispatch(loc[r]) ELSE loc[r]]
  /\ UNCHANGED Args

Normalize ==
  /\ Standing("normalize") # {}
  /\ loc' = [r \in Runs |-> IF r \in Standing("normalize") THEN normalize(loc[r]) ELSE loc[r]]
  /\ UNCHANGED Args

Expand ==
  /\ Standing("expand") # {}
  /\ loc' = [r \in Runs |-> IF r \in Standing("expand") THEN expand(loc[r]) ELSE loc[r]]
  /\ UNCHANGED Args

Return ==
  /\ LoopDone # {}
  /\ loc' = [r \in Runs |-> IF r \in LoopDone THEN return(loc[r]) ELSE loc[r]]
  /\ UNCHANGED Args

Next ==
  \/ Merge
  \/ ReturnEmpty
  \/ Setup
  \/ Schedule
  \/ Dispatch
  \/ Normalize
  \/ Expand
  \/ Return

Spec == Init /\ [][Next]_vars

\* ---------------------------------------------------------------- claims

\* the timestamp sequence a call works on: the caller's, or the default one
Resolved(r) == Get(noise_params[r].timestamps, default_timestamps)
Last(q) == q[Len(q)]
Ended(r) == loc[r].pc \in {"done", "raised"}
Returned(r) == loc[r].pc = "done"

\* shape of a batch: (frames, channels, rows, cols), for frames of one shape
BatchShape(samples) ==
  <<Len(samples), Len(samples[1]), samples[1][1].shape[1], samples[1][1].shape[2]>>

WellShaped(samples, shape) ==
  /\ Len(samples) = shape[1]
  /\ \A k \in 1..Len(samples) :
       /\ DOMAIN samples[k] = 1..shape[2]
       /\ \A c \in 1..shape[2] : samples[k][c].shape = <<shape[3], shape[4]>>

\* C1 (as claimed): for every non-empty timestamp sequence whose last element
\* is nonzero, each of the five noise types and every positive width and
\* height, the call returns a batch of shape
\* (len(timestamps), 4, height//8, width//8).
C1_ShapeForEveryInput ==
  \A r \in Runs :
    (/\ noise_type \in NoiseTypes
     /\ Len(Resolved(r)) > 0
     /\ Last(Resolved(r)) # 0
     /\ Ended(r))
    => /\ Returned(r)
       /\ WellShaped(loc[r].result[1].samples,
                     <<Len(Resolved(r)), 4, height \div 8, width \div 8>>)

\* C2: with an empty resolved timestamp sequence the call returns, for every
\* noise_type, one all-zero frame of shape (1, 4, height//8, width//8) and
\* the timestamps [0.0], having looked up no noise_type entry, bound no
\* base_noise, drawn no random number and raised nothing.
C2_EmptyShortCircuit ==
  \A r \in Runs :
    (Len(Resolved(r)) = 0 /\ loc[r].pc \notin {"call", "merged"})
    => /\ Returned(r)
       /\ loc[r].err = ""
       /\ loc[r].result[1].timestamps = <<0>>
       /\ WellShaped(loc[r].result[1].samples, <<1, 4, height \div 8, width \div 8>>)
       /\ \A c \in 1..4 : Elems(loc[r].result[1].samples[1][c]) \subseteq {0}
       /\ loc[r].bound = {}
       /\ loc[r].base_params = InitLoc.base_params
       /\ loc[r].rng = seed
       /\ loc[r].log = <<>>

C2_Witness ==
  /\ Len(Resolved(1)) = 0
  /\ Returned(1)
  /\ noise_type = Unrecognized
  /\ ~Has(noise_params[1].entry)
  /\ height \div 8 > 0 /\ width \div 8 > 0 /\ height # width

\* C4 (as claimed): with a non-empty timestamp sequence and an unrecognized
\* noise_type nothing is raised before the loop, and the call fails at the
\* normalization of the first timestamp with base_noise unassigned.
C4_OnlyUndefinedBaseNoise ==
  \A r \in Runs :
    (noise_type = Unrecognized /\ Len(Resolved(r)) > 0 /\ Ended(r))
    => /\ loc[r].pc = "raised"
       /\ loc[r].err = "UnboundLocalError"
       /\ loc[r].i = 0
       /\ "base_noise" \notin loc[r].bound

\* C4 (amended): with a non-empty timestamp sequence and an unrecognized
\* noise_type the call never returns.  If noise_params has no entry under
\* that name, the lookup of line 117 raises KeyError before the loop.  If it
\* has one, nothing is raised before the loop and no generator is called; the
\* first iteration raises ZeroDivisionError when the last timestamp is the
\* Python float 0.0, and otherwise reaches the normalization with base_noise
\* unassigned and fails there.
C4_KeyErrorOrUndefinedBaseNoise ==
  \A r \in Runs :
    (noise_type = Unrecognized /\ Len(Resolved(r)) > 0 /\ Ended(r))
    => /\ loc[r].pc = "raised"
       /\ loc[r].i = 0
       /\ "base_noise" \notin loc[r].bound
       /\ loc[r].log = <<>>
       /\ IF ~Has(noise_params[r].entry)
          THEN loc[r].err = "KeyError"
          ELSE IF ts_kind = "float" /\ Last(Resolved(r)) = 0
               THEN loc[r].err = "ZeroDivisionError"
               ELSE loc[r].err = "UnboundLocalError"

C4_Witness ==
  /\ noise_type = Unrecognized
  /\ Has(noise_params[1].entry)
  /\ loc[1].pc = "raised"
  /\ loc[1].err = "UnboundLocalError"
  /\ Len(Resolved(1)) = 2

\* C8 (as claimed): every generator returns a field of the requested shape
\* (latent_height, latent_width), also when the two differ.
C8_GeneratorKeepsShape ==
  \A r \in Runs :
    (loc[r].pc = "normalize" /\ "base_noise" \in loc[r].bound)
    => loc[r].base_noise.shape = <<loc[r].latent_height, loc[r].latent_width>>

\* the elements of frame k (1-based) of a batch
FrameElems(samples, k) == UNION {Elems(samples[k][c]) : c \in 1..4}

\* C7 (as claimed): for one of the five noise types, non-empty timestamps
\* with a nonzero last element and non-negative ratios, intensity >= 0 and
\* no constant field (none of a single element, none with max = min), every
\* element of the returned batch lies in [-1, 1].
C7_BatchWithinUnitRange ==
  \A r \in Runs :
    (/\ noise_type \in NoiseTypes
     /\ Returned(r)
     /\ Len(Resolved(r)) > 0
     /\ Last(Resolved(r)) # 0
     /\ \A k \in 1..Len(Resolved(r)) : Resolved(r)[k] * Last(Resolved(r)) >= 0
     /\ loc[r].intensity >= 0
     /\ loc[r].latent_height * loc[r].latent_width > 1
     /\ loc[r].flat = {})
    => \A k \in 1..Len(Resolved(r)) :
         \A x \in FrameElems(loc[r].result[1].samples, k) :
           IsFinite(x) /\ -SC <= x /\ x <= SC

\* the frame computed from one timestamp: lines 122-156 run once on locals
\* that hold nothing but the timestamp, the last timestamp, the intensity and
\* the latent sizes
Frame(timestamp, last, intensity) ==
  LET fresh == [InitLoc EXCEPT
                  !.pc = "loop",
                  !.timestamps = <<timestamp, last>>,
                  !.batch_size = 2,
                  !.latent_height = height \div 8,
                  !.latent_width = width \div 8,
                  !.noise_batch = [k \in 1..2 |->
                                     [c \in 1..4 |-> zeros(<<height \div 8, width \div 8>>)]],
                  !.intensity = intensity,
                  !.persistence = SC \div 2]
  IN  expand(normalize(dispatch(schedule(fresh)))).noise_batch[1]

Deterministic == {"simplex", "fbm", "wave", "domain_warp"}

\* C3: a call that returns for a non-empty timestamp sequence has stored
\* into noise_batch[i, c] exactly once for every i and c, in the order of i,
\* each time a channel computed from timestamps[i], and returns the
\* timestamp sequence it was given.
C3_FramesInTimestampOrder ==
  \A r \in Runs :
    (Returned(r) /\ Len(Resolved(r)) > 0)
    => /\ loc[r].result[1].timestamps = Resolved(r)
       /\ Len(loc[r].result[1].samples) = Len(Resolved(r))
       /\ Len(loc[r].log) = 4 * Len(Resolved(r))
       /\ \A k \in 1..Len(loc[r].log) :
            loc[r].log[k] = <<(k - 1) \div 4, (k - 1) % 4,
                              Resolved(r)[((k - 1) \div 4) + 1]>>

C3_Witness ==
  /\ Returned(1)
  /\ Len(Resolved(1)) = 2
  /\ Resolved(1)[1] # Resolved(1)[2]
  /\ loc[1].result[1].samples[1] # loc[1].result[1].samples[2]
  /\ \A x \in FrameElems(loc[1].result[1].samples, 1) : IsFinite(x)

\* a frame of the slot's shape with nan in every element of every channel
NaNFrame(frame, shape) ==
  \A c \in 1..4 : frame[c].shape = shape /\ Elems(frame[c]) \subseteq {NaN}

\* C5 (as claimed): when the field of timestamp i is constant (max = min),
\* the call does not abort in that iteration, frame i ends with nan in all 4
\* channels, and the frames of the other timestamps are the ones their
\* timestamps give on their own.
C5_ConstantFieldSpoilsOneFrame ==
  \A r \in Runs : \A k \in loc[r].flat :
    /\ ~(loc[r].pc = "raised" /\ loc[r].i = k)
    /\ loc[r].i > k =>
         NaNFrame(loc[r].noise_batch[k + 1], <<loc[r].latent_height, loc[r].latent_width>>)
    /\ (Returned(r) /\ noise_type \in Deterministic) =>
         \A j \in 1..Len(Resolved(r)) :
           (j - 1) \notin loc[r].flat =>
             loc[r].result[1].samples[j]
               = Frame(Resolved(r)[j], Last(Resolved(r)), loc[r].intensity)

\* a field min-max rescaling is defined on: finite, with two distinct values
NonConstant(t) ==
  /\ numel(t) > 0
  /\ \A x \in Elems(t) : IsFinite(x)
  /\ MinOf(t) # MaxOf(t)

C9_FrameFromOwnTimestamp ==
  \A r \in Runs :
    (Returned(r) /\ Len(Resolved(r)) > 0 /\ noise_type \in Deterministic)
    => \A k \in 1..Len(Resolved(r)) :
         loc[r].result[1].samples[k]
           = Frame(Resolved(r)[k], Last(Resolved(r)), loc[r].intensity)

C9_Witness ==
  /\ Returned(2)
  /\ noise_type = "fbm"
  /\ Len(Resolved(2)) = 2
  /\ Resolved(2)[1] # Resolved(2)[2]
  /\ loc[2].latent_height * loc[2].latent_width > 1
  /\ \A x \in FrameElems(loc[2].result[1].samples, 1) : IsFinite(x)
  /\ loc[2].result[1].samples[1] # loc[2].result[1].samples[2]

\* C10: two calls that differ only in the persistence configured in
\* noise_params (or in its presence) end alike: both return the same batch
\* and timestamps, or both raise the same error in the same iteration.
C10_PersistenceIgnored ==
  (Ended(1) /\ Ended(2))
  => /\ loc[1].pc = loc[2].pc
     /\ loc[1].err = loc[2].err
     /\ loc[1].i = loc[2].i
     /\ loc[1].result = loc[2].result
     /\ loc[1].noise_batch = loc[2].noise_batch

C10_Witness ==
  /\ Returned(1) /\ Returned(2)
  /\ noise_type = "fbm"
  /\ Get(noise_params[1].entry, default_entry("fbm")).persistence
       # Get(noise_params[2].entry, default_entry("fbm")).persistence
  /\ loc[1].latent_height * loc[1].latent_width > 1
  /\ Len(Resolved(1)) > 0
  /\ \A x \in FrameElems(loc[1].result[1].samples, 1) : IsFinite(x)

=============================================================================
